---- MODULE Spec2Model ----
(***************************************************************************)
(* influent.rs: the Measurement builder (src/measurement.rs) and the       *)
(* InfluxDB line-protocol serializer (src/serializer/line.rs).             *)
(*                                                                         *)
(* Text is modelled as the sequence of its UTF-8 bytes (str::as_bytes), a  *)
(* byte as its numeric value.  An i64 is modelled as a sign and a          *)
(* magnitude in base-10^9 limbs, most significant first, so that the whole *)
(* i64 range is representable.                                             *)
(***************************************************************************)
EXTENDS Integers, Sequences, FiniteSets, TLC

VARIABLES
    m,      \* the Measurement being built
    last,   \* the last call made on m, with its arguments
    ret,    \* what the last call returned
    m2,     \* a second Measurement with the same key (order-independence)
    ret2,   \* what serialize returned for m2
    text,   \* input text of the pure escaping functions
    value,  \* input Value of write_escaped_value
    res,    \* the function applied to the input and its result
    hist    \* the field names of m and of m2, each in the order of first add_field

vars == <<m, last, ret, m2, ret2, text, value, res, hist>>

(***************************************************************************)
(* Bytes the serializer names.                                             *)
(***************************************************************************)
Comma == 44
Space == 32
Equals == 61
Backslash == 92
Quote == 34
Minus == 45
Dot == 46
Zero == 48
LetterI == 105
LetterT == 116
LetterF == 102

\* Largest number of characters of an input text of the escaping checks.
MaxChars == 2

\* Number of write calls among which the failing one of a fallible sink is drawn.
MaxFault == 6

\* An i64 magnitude is held in limbs of LimbDigits decimal digits.
LimbDigits == 9
Limb == 10^LimbDigits

(***************************************************************************)
(* Input alphabet: the four characters the escapers treat specially, the   *)
(* backslash they insert, a plain letter and a two-byte character.         *)
(***************************************************************************)
Chars == { <<Comma>>, <<Space>>, <<Equals>>, <<Quote>>, <<Backslash>>, <<97>>, <<195, 169>> }

RECURSIVE TextsUpTo(_)
TextsUpTo(n) ==
    IF n = 0 THEN { <<>> }
    ELSE LET P == TextsUpTo(n - 1) IN P \cup { t \o c : t \in P, c \in Chars }

Texts == TextsUpTo(MaxChars)

(***************************************************************************)
(* i64 and f64 values.                                                     *)
(***************************************************************************)
I64(neg, mag) == [neg |-> neg, mag |-> mag]

I64Samples ==
    { I64(FALSE, <<0>>), I64(FALSE, <<10>>), I64(TRUE, <<10>>), I64(FALSE, <<2015>>),
      I64(FALSE, <<1, 434055562, 0>>),
      I64(FALSE, <<9, 223372036, 854775807>>),
      I64(TRUE, <<9, 223372036, 854775808>>) }

\* A finite f64 that is a multiple of 1/4 is modelled by its number of quarters.
F64(q) == [kind |-> "finite", q |-> q]
F64NaN == [kind |-> "nan", q |-> 0]
F64Inf(neg) == [kind |-> "inf", q |-> IF neg THEN -1 ELSE 1]

F64Samples == { F64(40), F64(4), F64(-13), F64(2), F64NaN, F64Inf(TRUE) }

RECURSIVE NatToString(_)
NatToString(n) ==
    IF n < 10 THEN <<Zero + n>>
    ELSE Append(NatToString(n \div 10), Zero + (n % 10))

RECURSIVE ZeroPad(_, _)
ZeroPad(s, width) == IF Len(s) >= width THEN s ELSE ZeroPad(<<Zero>> \o s, width)

RECURSIVE LimbsToString(_, _)
LimbsToString(mag, i) ==
    IF i > Len(mag) THEN <<>>
    ELSE (IF i = 1 THEN NatToString(mag[i]) ELSE ZeroPad(NatToString(mag[i]), LimbDigits))
         \o LimbsToString(mag, i + 1)

I64ToStringNoPad(i) ==
    (IF i.neg THEN <<Minus>> ELSE <<>>)
    \o NatToString(i.mag[1])
    \o (IF Len(i.mag) > 1 THEN NatToString(i.mag[2]) ELSE <<>>)
    \o (IF Len(i.mag) > 2 THEN NatToString(i.mag[3]) ELSE <<>>)

\* i64::to_string: the decimal text, '-' first when negative.
I64ToString(i) == (IF i.neg THEN <<Minus>> ELSE <<>>) \o LimbsToString(i.mag, 1)

\* f64::to_string: the shortest text that reads back as the same f64.
F64ToString(f) ==
    IF f.kind = "nan" THEN <<78, 97, 78>>
    ELSE IF f.kind = "inf" THEN (IF f.q < 0 THEN <<Minus>> ELSE <<>>) \o <<105, 110, 102>>
    ELSE LET a == IF f.q < 0 THEN -f.q ELSE f.q
             frac == a % 4
         IN (IF f.q < 0 THEN <<Minus>> ELSE <<>>)
            \o NatToString(a \div 4)
            \o (IF frac = 0 THEN <<>>
                ELSE IF frac = 2 THEN <<Dot, Zero + 5>>
                ELSE <<Dot>> \o NatToString(frac * 25))

(***************************************************************************)
(* Value, the field value enum.                                            *)
(***************************************************************************)
String(s) == [tag |-> "String", v |-> s]
Float(f) == [tag |-> "Float", v |-> f]
Integer(i) == [tag |-> "Integer", v |-> i]
Boolean(b) == [tag |-> "Boolean", v |-> b]

(***************************************************************************)
(* The output sink, a std::io::Write.  serialize_buf writes into a         *)
(* Cursor<Vec<u8>>, whose write appends all the bytes and never fails      *)
(* (fault = 0).  The helpers take any Write: with fault = k the k-th write *)
(* call returns Err and writes nothing.  failLen records the length of the *)
(* data at the first failed write, -1 while none failed.                   *)
(***************************************************************************)
Cursor(fault) == [data |-> <<>>, calls |-> 0, fault |-> fault, failLen |-> -1]

Write(w, bytes) ==
    LET c == w.calls + 1 IN
    IF c = w.fault
    THEN [w |-> [w EXCEPT !.calls = c, !.failLen = Len(w.data)], ok |-> FALSE, n |-> 0]
    ELSE [w |-> [w EXCEPT !.calls = c, !.data = @ \o bytes], ok |-> TRUE, n |-> Len(bytes)]

(***************************************************************************)
(* write_escaped_key, write_escaped_tag, write_escaped_value.  Each        *)
(* returns the sink and the io::Result<usize>: try! returns the first Err. *)
(***************************************************************************)
EscapeKeyByteHigh(b) ==
    IF b = Comma THEN <<Backslash, Comma>>
    ELSE IF b = Space THEN <<Backslash, Space>>
    ELSE IF b >= 128 /\ b < 192 THEN <<Backslash, b>>
    ELSE <<b>>

EscapeKeyByte(b) ==
    IF b = Comma THEN <<Backslash, Comma>>
    ELSE IF b = Space THEN <<Backslash, Space>>
    ELSE <<b>>

RECURSIVE WriteEscapedKeyFrom(_, _, _, _)
WriteEscapedKeyFrom(w, key, i, written) ==
    IF i > Len(key) THEN [w |-> w, ok |-> TRUE, n |-> written]
    ELSE LET r == Write(w, EscapeKeyByte(key[i])) IN
         IF ~r.ok THEN r
         ELSE WriteEscapedKeyFrom(r.w, key, i + 1, written + r.n)

WriteEscapedKey(w, key) == WriteEscapedKeyFrom(w, key, 1, 0)

EscapeTagByteDedicated(b) ==
    IF b = Comma THEN <<Backslash, Comma>>
    ELSE IF b = Space THEN <<Backslash, Space>>
    ELSE IF b = Equals THEN <<Backslash, Equals>>
    ELSE <<b>>

EscapeTagByte(b) ==
    IF b = Comma THEN <<Backslash, Comma>>
    ELSE IF b = Space THEN <<Backslash, Space>>
    ELSE IF b = Equals THEN <<Backslash, Space>>
    ELSE <<b>>

RECURSIVE WriteEscapedTagFrom(_, _, _, _)
WriteEscapedTagFrom(w, tag, i, written) ==
    IF i > Len(tag) THEN [w |-> w, ok |-> TRUE, n |-> written]
    ELSE LET r == Write(w, EscapeTagByte(tag[i])) IN
         IF ~r.ok THEN r
         ELSE WriteEscapedTagFrom(r.w, tag, i + 1, written + r.n)

WriteEscapedTagAsKey(w, tag) == WriteEscapedKeyFrom(w, tag, 1, 0)

WriteEscapedTag(w, tag) == WriteEscapedTagFrom(w, tag, 1, 0)

EscapeStringByteRaw(b) == <<b>>

EscapeStringByte(b) == IF b = Quote THEN <<Backslash, Quote>> ELSE <<b>>

RECURSIVE WriteStringBytesFrom(_, _, _, _)
WriteStringBytesFrom(w, s, i, written) ==
    IF i > Len(s) THEN [w |-> w, ok |-> TRUE, n |-> written]
    ELSE LET r == Write(w, EscapeStringByte(s[i])) IN
         IF ~r.ok THEN r
         ELSE WriteStringBytesFrom(r.w, s, i + 1, written + r.n)

WriteEscapedValue(w, val) ==
    IF val.tag = "String" THEN
        LET a == Write(w, <<Quote>>) IN
        IF ~a.ok THEN a ELSE
        LET b == WriteStringBytesFrom(a.w, val.v, 1, a.n) IN
        IF ~b.ok THEN b ELSE
        LET c == Write(b.w, <<Quote>>) IN
        IF ~c.ok THEN c ELSE [w |-> c.w, ok |-> TRUE, n |-> b.n]
    ELSE IF val.tag = "Integer" THEN
        LET a == Write(w, I64ToString(val.v)) IN
        IF ~a.ok THEN a ELSE
        LET b == Write(a.w, <<LetterI>>) IN
        IF ~b.ok THEN b ELSE [w |-> b.w, ok |-> TRUE, n |-> a.n + b.n]
    ELSE IF val.tag = "Float" THEN
        Write(w, F64ToString(val.v))
    ELSE
        Write(w, IF val.v THEN <<LetterT>> ELSE <<LetterF>>)

(***************************************************************************)
(* The reference helpers escape, as_string, as_integer, as_float,          *)
(* as_boolean, with str::replace of a one-byte pattern.                    *)
(***************************************************************************)
RECURSIVE Replace(_, _, _)
Replace(s, from, to) ==
    IF s = <<>> THEN <<>>
    ELSE (IF Head(s) = from THEN to ELSE <<Head(s)>>) \o Replace(Tail(s), from, to)

escape(s) == Replace(Replace(s, Space, <<Backslash, Space>>), Comma, <<Backslash, Comma>>)

as_string(s) == <<Quote>> \o Replace(s, Quote, <<Backslash, Quote>>) \o <<Quote>>

as_integer(i) == I64ToString(i) \o <<LetterI>>

as_float(f) == F64ToString(f)

as_boolean(b) == IF b THEN <<LetterT>> ELSE <<LetterF>>

(***************************************************************************)
(* &str ordering (byte-wise lexicographic) and BTreeMap, modelled as the   *)
(* sequence of its <<key, value>> entries in iteration order.              *)
(***************************************************************************)
LexLess(a, b) ==
    \E i \in 1..Len(b) :
        /\ Len(a) >= i - 1
        /\ \A j \in 1..(i - 1) : a[j] = b[j]
        /\ \/ i = Len(a) + 1
           \/ i <= Len(a) /\ a[i] < b[i]

BTreeGet(map, k) ==
    IF \E i \in 1..Len(map) : map[i][1] = k
    THEN << (map[CHOOSE i \in 1..Len(map) : map[i][1] = k])[2] >>
    ELSE <<>>

VecPush(map, k, v) ==
    IF \E i \in 1..Len(map) : map[i][1] = k
    THEN [i \in 1..Len(map) |-> IF map[i][1] = k THEN <<k, v>> ELSE map[i]]
    ELSE Append(map, <<k, v>>)

InsertIfAbsent(map, k, v) ==
    IF \E i \in 1..Len(map) : map[i][1] = k
    THEN map
    ELSE LET p == Cardinality({i \in 1..Len(map) : LexLess(map[i][1], k)}) IN
         SubSeq(map, 1, p) \o << <<k, v>> >> \o SubSeq(map, p + 1, Len(map))

\* BTreeMap::insert: replaces the value of a key already present, else adds
\* the entry at its place in key order.
BTreeInsert(map, k, v) ==
    IF \E i \in 1..Len(map) : map[i][1] = k
    THEN [i \in 1..Len(map) |-> IF map[i][1] = k THEN <<k, v>> ELSE map[i]]
    ELSE LET p == Cardinality({i \in 1..Len(map) : LexLess(map[i][1], k)}) IN
         SubSeq(map, 1, p) \o << <<k, v>> >> \o SubSeq(map, p + 1, Len(map))

(***************************************************************************)
(* Measurement.  Option<i64> is <<>> (None) or <<ts>> (Some(ts)).          *)
(***************************************************************************)
new(key) == [key |-> key, timestamp |-> <<>>, fields |-> <<>>, tags |-> <<>>]

add_field(self, field, val) == [self EXCEPT !.fields = BTreeInsert(@, field, val)]

add_tag(self, tag, val) == [self EXCEPT !.tags = BTreeInsert(@, tag, val)]

set_timestamp(self, timestamp) == [self EXCEPT !.timestamp = <<timestamp>>]

(***************************************************************************)
(* LineSerializer::serialize_buf.  Every io::Result is dropped: each       *)
(* statement goes on with the sink the previous one left.                  *)
(***************************************************************************)
RECURSIVE WriteTags(_, _, _)
WriteTags(w, tags, i) ==
    IF i > Len(tags) THEN w
    ELSE LET a == Write(w, <<Comma>>).w
             b == WriteEscapedTag(a, tags[i][1]).w
             c == Write(b, <<Equals>>).w
             d == WriteEscapedTag(c, tags[i][2]).w
         IN WriteTags(d, tags, i + 1)

FieldSeparatorComma(first) == <<Comma>>

FieldSeparator(first) == IF first THEN <<Space>> ELSE <<Comma>>

RECURSIVE WriteFields(_, _, _, _)
WriteFields(w, fields, i, first) ==
    IF i > Len(fields) THEN w
    ELSE LET a == Write(w, FieldSeparator(first)).w
             b == WriteEscapedTag(a, fields[i][1]).w
             c == Write(b, <<Equals>>).w
             d == WriteEscapedValue(c, fields[i][2]).w
         IN WriteFields(d, fields, i + 1, FALSE)

WriteTimestamp(w, timestamp) ==
    IF timestamp # <<>>
    THEN LET a == Write(w, <<Space>>).w IN Write(a, I64ToString(timestamp[1])).w
    ELSE w

\* The sink after serialize_buf; cur.into_inner() is its data.
serialize_buf(measurement, cur) ==
    LET a == WriteEscapedKey(cur, measurement.key).w
        b == WriteTags(a, measurement.tags, 1)
        c == WriteFields(b, measurement.fields, 1, TRUE)
    IN WriteTimestamp(c, measurement.timestamp)

(***************************************************************************)
(* String::from_utf8: Ok exactly for well-formed UTF-8.                    *)
(***************************************************************************)
IsCont(s, i) == i <= Len(s) /\ s[i] >= 128 /\ s[i] <= 191

RECURSIVE ValidUtf8From(_, _)
ValidUtf8From(s, i) ==
    IF i > Len(s) THEN TRUE
    ELSE LET b == s[i] IN
         IF b < 128 THEN ValidUtf8From(s, i + 1)
         ELSE IF b >= 194 /\ b <= 223
              THEN IsCont(s, i + 1) /\ ValidUtf8From(s, i + 2)
         ELSE IF b >= 224 /\ b <= 239
              THEN /\ IsCont(s, i + 1) /\ IsCont(s, i + 2)
                   /\ (b = 224 => s[i + 1] >= 160)
                   /\ (b = 237 => s[i + 1] <= 159)
                   /\ ValidUtf8From(s, i + 3)
         ELSE IF b >= 240 /\ b <= 244
              THEN /\ IsCont(s, i + 1) /\ IsCont(s, i + 2) /\ IsCont(s, i + 3)
                   /\ (b = 240 => s[i + 1] >= 144)
                   /\ (b = 244 => s[i + 1] <= 143)
                   /\ ValidUtf8From(s, i + 4)
         ELSE FALSE

ValidUtf8(s) == ValidUtf8From(s, 1)

\* What a call returns: nothing, a String, or a panic; w is the sink it wrote.
Unit == [kind |-> "unit", s |-> <<>>, w |-> Cursor(0)]

\* Serializer::serialize over the sink cur: String::from_utf8(v).unwrap().
serialize(measurement, cur) ==
    LET w == serialize_buf(measurement, cur) IN
    IF ValidUtf8(w.data)
    THEN [kind |-> "string", s |-> w.data, w |-> w]
    ELSE [kind |-> "panic", s |-> <<>>, w |-> w]

(***************************************************************************)
(* Inputs of the builder calls.                                            *)
(***************************************************************************)
Keys == { <<107, 101, 121>>, <<107, Comma, Space, Equals, 195, 169>> }

TagNames == { <<116>>, <<111, Space, Comma, Equals>> }

TagValues == { <<118>>, <<97, Comma, Space, Equals, 195, 169>> }

FieldNames == { <<97, Space, Equals>>, <<195, 169, Comma>> }

FieldValues ==
    { String(<<120, Quote, Comma, Space, 195, 169>>), Integer(I64(TRUE, <<10>>)),
      Float(F64(40)), Boolean(FALSE) }

Timestamps == { I64(FALSE, <<1, 434055562, 0>>), I64(TRUE, <<9, 223372036, 854775808>>) }

PairFieldNames == { <<98>>, <<97, Space, Equals>> }

PairFieldValues == { String(<<120, Quote>>), Integer(I64(TRUE, <<10>>)) }

PairTagNames == { <<116>>, <<111, Space, Comma, Equals>> }

PairTagValues == { <<118, Comma>> }

PairTimestamps == { I64(FALSE, <<1, 434055562, 0>>) }

Call(op, name, val, old) == [op |-> op, name |-> name, val |-> val, old |-> old]

NoResult == [fn |-> "none", out |-> <<>>, n |-> 0]

(***************************************************************************)
(* The builder and the serializer on one Measurement.                      *)
(***************************************************************************)
Init ==
    /\ \E key \in Keys : m = new(key) /\ m2 = new(key)
    /\ last = Call("new", <<>>, <<>>, <<>>)
    /\ ret = Unit
    /\ ret2 = Unit
    /\ text = <<>>
    /\ value = Boolean(FALSE)
    /\ res = NoResult
    /\ hist = << <<>>, <<>> >>

AddField ==
    \E field \in FieldNames, val \in FieldValues :
        /\ m' = add_field(m, field, val)
        /\ last' = Call("add_field", field, <<val>>, BTreeGet(m.fields, field))
        /\ ret' = Unit
        /\ UNCHANGED <<m2, ret2, text, value, res, hist>>

AddTag ==
    \E tag \in TagNames, val \in TagValues :
        /\ m' = add_tag(m, tag, val)
        /\ last' = Call("add_tag", tag, <<val>>, BTreeGet(m.tags, tag))
        /\ ret' = Unit
        /\ UNCHANGED <<m2, ret2, text, value, res, hist>>

SetTimestamp ==
    \E timestamp \in Timestamps :
        /\ m' = set_timestamp(m, timestamp)
        /\ last' = Call("set_timestamp", <<>>, <<timestamp>>, m.timestamp)
        /\ ret' = Unit
        /\ UNCHANGED <<m2, ret2, text, value, res, hist>>

Serialize ==
    /\ ret' = serialize(m, Cursor(0))
    /\ last' = Call("serialize", <<>>, <<>>, <<>>)
    /\ UNCHANGED <<m, m2, ret2, text, value, res, hist>>

Next == AddField \/ AddTag \/ SetTimestamp \/ Serialize

Spec == Init /\ [][Next]_vars

(***************************************************************************)
(* The same calls with the serializer writing into a Write whose k-th      *)
(* write call fails.                                                       *)
(***************************************************************************)
SerializeFallible ==
    \E k \in 1..MaxFault :
        /\ ret' = serialize(m, Cursor(k))
        /\ last' = Call("serialize", <<>>, <<>>, <<>>)
        /\ UNCHANGED <<m, m2, ret2, text, value, res, hist>>

NextSink == AddField \/ AddTag \/ SetTimestamp \/ SerializeFallible

SpecSink == Init /\ [][NextSink]_vars

(***************************************************************************)
(* Two Measurements with the same key, built by independent calls.         *)
(***************************************************************************)
Noted(order, field) ==
    IF \E i \in 1..Len(order) : order[i] = field THEN order ELSE Append(order, field)

PairAddField ==
    \E field \in PairFieldNames, val \in PairFieldValues :
        /\ \/ /\ m' = add_field(m, field, val)
              /\ hist' = <<Noted(hist[1], field), hist[2]>>
              /\ m2' = m2
           \/ /\ m2' = add_field(m2, field, val)
              /\ hist' = <<hist[1], Noted(hist[2], field)>>
              /\ m' = m
        /\ ret' = Unit /\ ret2' = Unit
        /\ UNCHANGED <<last, text, value, res>>

PairAddTag ==
    \E tag \in PairTagNames, val \in PairTagValues :
        /\ \/ m' = add_tag(m, tag, val) /\ m2' = m2
           \/ m2' = add_tag(m2, tag, val) /\ m' = m
        /\ ret' = Unit /\ ret2' = Unit
        /\ UNCHANGED <<last, text, value, res, hist>>

PairSetTimestamp ==
    \E timestamp \in PairTimestamps :
        /\ \/ m' = set_timestamp(m, timestamp) /\ m2' = m2
           \/ m2' = set_timestamp(m2, timestamp) /\ m' = m
        /\ ret' = Unit /\ ret2' = Unit
        /\ UNCHANGED <<last, text, value, res, hist>>

PairSerialize ==
    /\ ret' = serialize(m, Cursor(0))
    /\ ret2' = serialize(m2, Cursor(0))
    /\ UNCHANGED <<m, m2, last, text, value, res, hist>>

NextPair == PairAddField \/ PairAddTag \/ PairSetTimestamp \/ PairSerialize

SpecPair == Init /\ [][NextPair]_vars

(***************************************************************************)
(* The pure functions applied to bounded inputs.                           *)
(***************************************************************************)
InputValues(t) ==
    { String(t) } \cup { Integer(i) : i \in I64Samples }
    \cup { Float(f) : f \in F64Samples } \cup { Boolean(b) : b \in BOOLEAN }

InitEsc ==
    /\ text \in Texts
    /\ value \in InputValues(text)
    /\ res = NoResult
    /\ m = new(text) /\ m2 = new(text)
    /\ last = Call("new", <<>>, <<>>, <<>>)
    /\ ret = Unit
    /\ ret2 = Unit
    /\ hist = << <<>>, <<>> >>

Result(fn, r) == [fn |-> fn, out |-> r.w.data, n |-> IF r.ok THEN r.n ELSE -1]

ApplyEscapedKey ==
    /\ res' = Result("write_escaped_key", WriteEscapedKey(Cursor(0), text))
    /\ UNCHANGED <<m, last, ret, m2, ret2, text, value, hist>>

ApplyEscapedTag ==
    /\ res' = Result("write_escaped_tag", WriteEscapedTag(Cursor(0), text))
    /\ UNCHANGED <<m, last, ret, m2, ret2, text, value, hist>>

ApplyEscapedValue ==
    /\ res' = Result("write_escaped_value", WriteEscapedValue(Cursor(0), value))
    /\ UNCHANGED <<m, last, ret, m2, ret2, text, value, hist>>

\* serialize of the Measurement with key text, tag text=text and field text=value.
ApplySerialize ==
    /\ text # <<>>
    /\ res' = [fn |-> "serialize", n |-> 0,
               out |-> serialize(add_field(add_tag(new(text), text, text), text, value),
                                 Cursor(0)).s]
    /\ UNCHANGED <<m, last, ret, m2, ret2, text, value, hist>>

NextEsc == ApplyEscapedKey \/ ApplyEscapedTag \/ ApplyEscapedValue \/ ApplySerialize

SpecEsc == InitEsc /\ [][NextEsc]_vars

(***************************************************************************)
(* The line format as the specification words it, computed from the        *)
(* name-to-value mappings rather than from the iteration of the maps.      *)
(***************************************************************************)
Names(map) == { map[i][1] : i \in 1..Len(map) }

Entries(map) == { map[i] : i \in 1..Len(map) }

ValueOf(map, name) == (CHOOSE e \in Entries(map) : e[1] = name)[2]

Least(S) == CHOOSE n \in S : \A o \in S \ {n} : LexLess(n, o)

RECURSIVE Ascending(_)
Ascending(S) == IF S = {} THEN <<>> ELSE <<Least(S)>> \o Ascending(S \ {Least(S)})

KeyProfile(t) == Replace(Replace(t, Comma, <<Backslash, Comma>>), Space, <<Backslash, Space>>)

TagProfile(t) ==
    Replace(Replace(Replace(t, Comma, <<Backslash, Comma>>), Space, <<Backslash, Space>>),
            Equals, <<Backslash, Space>>)

FormatValue(val) ==
    IF val.tag = "String" THEN as_string(val.v)
    ELSE IF val.tag = "Integer" THEN as_integer(val.v)
    ELSE IF val.tag = "Float" THEN as_float(val.v)
    ELSE as_boolean(val.v)

RECURSIVE TagSection(_, _, _)
TagSection(map, names, i) ==
    IF i > Len(names) THEN <<>>
    ELSE <<Comma>> \o TagProfile(names[i]) \o <<Equals>> \o TagProfile(ValueOf(map, names[i]))
         \o TagSection(map, names, i + 1)

RECURSIVE FieldSection(_, _, _)
FieldSection(map, names, i) ==
    IF i > Len(names) THEN <<>>
    ELSE (IF i = 1 THEN <<>> ELSE <<Comma>>)
         \o TagProfile(names[i]) \o <<Equals>> \o FormatValue(ValueOf(map, names[i]))
         \o FieldSection(map, names, i + 1)

KeyAndTags(me) == KeyProfile(me.key) \o TagSection(me.tags, Ascending(Names(me.tags)), 1)

KeyTagsFields(me) ==
    KeyAndTags(me) \o <<Space>> \o FieldSection(me.fields, Ascending(Names(me.fields)), 1)

(***************************************************************************)
(* Decimal text read back as an i64.                                       *)
(***************************************************************************)
IsDigit(b) == b >= Zero /\ b <= Zero + 9

RECURSIVE DigitsValue(_)
DigitsValue(ds) ==
    IF ds = <<>> THEN 0
    ELSE DigitsValue(SubSeq(ds, 1, Len(ds) - 1)) * 10 + (ds[Len(ds)] - Zero)

RECURSIVE DigitsLimbs(_)
DigitsLimbs(ds) ==
    IF Len(ds) <= LimbDigits THEN <<DigitsValue(ds)>>
    ELSE Append(DigitsLimbs(SubSeq(ds, 1, Len(ds) - LimbDigits)),
                DigitsValue(SubSeq(ds, Len(ds) - LimbDigits + 1, Len(ds))))

\* A canonical decimal text: an optional '-', then digits with no leading zero.
IsDecimalText(t) ==
    LET ds == IF t # <<>> /\ t[1] = Minus THEN Tail(t) ELSE t IN
    /\ ds # <<>>
    /\ \A i \in 1..Len(ds) : IsDigit(ds[i])
    /\ (Len(ds) > 1 => ds[1] # Zero)

ParseI64(t) ==
    IF t[1] = Minus THEN I64(TRUE, DigitsLimbs(Tail(t))) ELSE I64(FALSE, DigitsLimbs(t))

EndsWith(s, suffix) ==
    /\ Len(s) >= Len(suffix)
    /\ SubSeq(s, Len(s) - Len(suffix) + 1, Len(s)) = suffix

Serialized == last.op = "serialize"

(***************************************************************************)
(* C1.  Order-independence: two Measurements with the same key that end    *)
(* with the same timestamp, the same tag mapping and the same field        *)
(* mapping serialize to the same bytes, whatever the order of the calls    *)
(* that built them.                                                        *)
(***************************************************************************)
SameContents ==
    /\ m.key = m2.key
    /\ m.timestamp = m2.timestamp
    /\ Entries(m.tags) = Entries(m2.tags)
    /\ Entries(m.fields) = Entries(m2.fields)

C1_OrderIndependence ==
    (ret.kind # "unit" /\ SameContents) => (ret.kind = ret2.kind /\ ret.s = ret2.s)

C1_Witness ==
    /\ ret.kind = "string" /\ ret2.kind = "string"
    /\ SameContents
    /\ Len(hist[1]) = 2 /\ hist[1] # hist[2]
    /\ Len(m.tags) = 2 /\ m.timestamp # <<>>
    /\ ret.s = ret2.s

(***************************************************************************)
(* C2.  With at least one field the output is exactly: the escaped key;    *)
(* per tag in ascending byte order of the name ',' name '=' value; one     *)
(* space; the fields in ascending byte order of the name, joined by ',';   *)
(* and, only if a timestamp is set, a space and the timestamp.             *)
(***************************************************************************)
C2_LineLayout ==
    (Serialized /\ m.fields # <<>>) =>
        /\ ret.kind = "string"
        /\ ret.s = KeyTagsFields(m)
                   \o (IF m.timestamp = <<>> THEN <<>>
                       ELSE <<Space>> \o I64ToString(m.timestamp[1]))

C2_Witness ==
    /\ Serialized
    /\ Len(m.fields) = 2 /\ Len(m.tags) = 2 /\ m.timestamp # <<>>
    /\ m.key = <<107, 101, 121>>
    /\ SubSeq(ret.s, 1, 6) = <<107, 101, 121, Comma, 111, Backslash>>
    /\ ret.s = KeyTagsFields(m) \o <<Space>> \o I64ToString(m.timestamp[1])

(***************************************************************************)
(* C3.  As claimed: for every measurement, an empty field set included,    *)
(* the byte right after the key-and-tags section is a space, written once. *)
(***************************************************************************)
SpaceAfterKeyAndTags ==
    LET kt == Len(KeyAndTags(m)) IN
    /\ Len(ret.s) > kt
    /\ SubSeq(ret.s, 1, kt) = KeyAndTags(m)
    /\ ret.s[kt + 1] = Space
    /\ (Len(ret.s) > kt + 1 => ret.s[kt + 2] # Space)

C3_SpaceUnconditional == Serialized => SpaceAfterKeyAndTags

(***************************************************************************)
(* C3, amended.  For every measurement with at least one field, whatever   *)
(* its tag set (an empty one included), the byte right after the           *)
(* key-and-tags section is a space, written once; with an empty tag set    *)
(* the space follows the key directly.  The space is written with the      *)
(* first field: a measurement without fields gets none there.              *)
(***************************************************************************)
C3_SpaceBeforeFields ==
    /\ (Serialized /\ m.fields # <<>>) => SpaceAfterKeyAndTags
    /\ (Serialized /\ m.fields = <<>> /\ m.timestamp = <<>>) => ret.s = KeyAndTags(m)

C3_Witness ==
    /\ Serialized /\ m.fields # <<>> /\ m.tags = <<>>
    /\ m.key = <<107, 101, 121>>
    /\ SubSeq(ret.s, 1, 4) = <<107, 101, 121, Space>>

(***************************************************************************)
(* C4.  Escaping round-trip: each escape profile (measurement key,         *)
(* tag/field name and tag value, string value) followed by its reversal    *)
(* gives back the input text; so no two distinct texts escape alike.       *)
(***************************************************************************)
RECURSIVE Unescape(_, _)
Unescape(s, specials) ==
    IF s = <<>> THEN <<>>
    ELSE IF Len(s) >= 2 /\ s[1] = Backslash /\ s[2] \in specials
         THEN <<s[2]>> \o Unescape(SubSeq(s, 3, Len(s)), specials)
         ELSE <<s[1]>> \o Unescape(Tail(s), specials)

Unquote(s) == Unescape(SubSeq(s, 2, Len(s) - 1), {Quote})

KeyRoundTrip ==
    res.fn = "write_escaped_key" =>
        /\ Unescape(res.out, {Comma, Space}) = text
        /\ \A t \in Texts \ {text} : WriteEscapedKey(Cursor(0), t).w.data # res.out

TagRoundTrip ==
    res.fn = "write_escaped_tag" =>
        /\ Unescape(res.out, {Comma, Space, Equals}) = text
        /\ \A t \in Texts \ {text} : WriteEscapedTag(Cursor(0), t).w.data # res.out

StringRoundTrip ==
    (res.fn = "write_escaped_value" /\ value.tag = "String") =>
        /\ Unquote(res.out) = value.v
        /\ \A t \in Texts \ {text} :
               WriteEscapedValue(Cursor(0), String(t)).w.data # res.out

C4_EscapingRoundTrip == KeyRoundTrip /\ TagRoundTrip /\ StringRoundTrip

LastSpace(s) == CHOOSE i \in 1..Len(s) : s[i] = Space /\ \A j \in (i + 1)..Len(s) : s[j] # Space

AfterLastSpace(s) == SubSeq(s, LastSpace(s) + 1, Len(s))

C6_TimestampEmission ==
    /\ (Serialized /\ m.timestamp # <<>>) =>
           /\ \E i \in 1..Len(ret.s) : ret.s[i] = Space
           /\ IsDecimalText(AfterLastSpace(ret.s))
           /\ ParseI64(AfterLastSpace(ret.s)) = m.timestamp[1]
           /\ (m.fields # <<>> =>
                   SubSeq(ret.s, 1, LastSpace(ret.s) - 1) = KeyTagsFields(m))
    /\ (Serialized /\ m.timestamp = <<>> /\ m.fields # <<>>) =>
           /\ ret.s = KeyTagsFields(m)
           /\ EndsWith(ret.s, FormatValue(m.fields[Len(m.fields)][2]))
           /\ \A i \in 1..(Len(m.fields) - 1) :
                  LexLess(m.fields[i][1], m.fields[Len(m.fields)][1])

C6_Witness ==
    /\ Serialized
    /\ m.timestamp = << I64(FALSE, <<1, 434055562, 0>>) >>
    /\ m.fields # <<>>
    /\ EndsWith(ret.s, <<Space, 49, 52, 51, 52, 48, 53, 53, 53, 54, 50,
                         48, 48, 48, 48, 48, 48, 48, 48, 48>>)

(***************************************************************************)
(* C7.  Field value formatting is total over the non-float variants and    *)
(* agrees with as_string, as_integer, as_boolean: a String is '"', the     *)
(* text with every '"' as '\"', '"'; an Integer its decimal text and 'i';  *)
(* a Boolean 't' or 'f'.                                                   *)
(***************************************************************************)
C7_ValueFormatting ==
    (res.fn = "write_escaped_value" /\ value.tag # "Float") =>
        /\ res.n >= 0
        /\ value.tag = "String" =>
               /\ res.out = as_string(value.v)
               /\ res.out = <<Quote>> \o Replace(value.v, Quote, <<Backslash, Quote>>) \o <<Quote>>
        /\ value.tag = "Integer" =>
               /\ res.out = as_integer(value.v)
               /\ res.out[Len(res.out)] = LetterI
               /\ IsDecimalText(SubSeq(res.out, 1, Len(res.out) - 1))
               /\ ParseI64(SubSeq(res.out, 1, Len(res.out) - 1)) = value.v
               /\ (res.out[1] = Minus) = value.v.neg
        /\ value.tag = "Boolean" =>
               /\ res.out = as_boolean(value.v)
               /\ res.out = IF value.v THEN <<LetterT>> ELSE <<LetterF>>

C7_Witness ==
    /\ res.fn = "write_escaped_value"
    /\ value = String(<<Quote, Comma>>)
    /\ res.out = <<Quote, Backslash, Quote, Comma, Quote>>

(***************************************************************************)
(* C8.  The encoder is total: for a non-empty key and UTF-8 input,         *)
(* serialize returns a string and does not panic; the bytes serialize_buf  *)
(* builds are valid UTF-8.                                                 *)
(***************************************************************************)
C8_SerializeTotal ==
    Serialized => (ret.kind = "string" /\ ValidUtf8(ret.w.data) /\ ret.s = ret.w.data)

C8_Witness ==
    /\ Serialized
    /\ ret.kind = "string"
    /\ \E i \in 1..Len(ret.s) : ret.s[i] >= 128
    /\ Len(m.fields) = 2 /\ Len(m.tags) = 2

(***************************************************************************)
(* C9.  Builder state: the key stays the one given to new; the timestamp   *)
(* is absent until set_timestamp and then the latest argument; each field  *)
(* (tag) name occurs once with the value of the latest add_field           *)
(* (add_tag) of that name, and so once in the encoded line.                *)
(***************************************************************************)
NoDuplicate(map) == Cardinality(Names(map)) = Len(map)

AddedTo(old, new_, name, val, names) ==
    /\ BTreeGet(new_, name) = val
    /\ \A n \in names \ {name} : BTreeGet(new_, n) = BTreeGet(old, n)
    /\ Names(new_) = Names(old) \cup {name}
    /\ NoDuplicate(new_)

C9_BuilderState ==
    /\ m.timestamp = <<>> /\ m.fields = <<>> /\ m.tags = <<>>
    /\ [][ /\ m'.key = m.key
           /\ last'.op = "set_timestamp" =>
                  m'.timestamp = last'.val /\ m'.fields = m.fields /\ m'.tags = m.tags
           /\ last'.op # "set_timestamp" => m'.timestamp = m.timestamp
           /\ last'.op = "add_field" =>
                  /\ AddedTo(m.fields, m'.fields, last'.name, last'.val, FieldNames)
                  /\ m'.tags = m.tags
           /\ last'.op = "add_tag" =>
                  /\ AddedTo(m.tags, m'.tags, last'.name, last'.val, TagNames)
                  /\ m'.fields = m.fields
           /\ (last'.op = "serialize" /\ m.fields # <<>>) =>
                  /\ m' = m
                  /\ SubSeq(ret'.s, 1, Len(KeyTagsFields(m))) = KeyTagsFields(m)
         ]_vars

C9_Witness ==
    /\ last.op = "add_field"
    /\ last.old # <<>> /\ last.old # last.val
    /\ BTreeGet(m.fields, last.name) = last.val
    /\ Len(m.fields) = 2

====
